---- MODULE Spec2Model ----
(***************************************************************************)
(* Token lifecycle and authorized-request pipeline of Sortify              *)
(* (src/src/lib/spotifyAuth.ts, src/src/lib/spotifyClient.ts and the App   *)
(* component of src/src/App.tsx), and the Dashboard component of           *)
(* src/src/App.tsx: the paginated fetches, the sort of the loaded tracks   *)
(* and the creation of the sorted playlist.                                *)
(*                                                                         *)
(* Strings are modelled by natural numbers: 0 is the empty string, a       *)
(* positive number is a non-empty string.  A value that may be null or     *)
(* undefined is a sequence of length at most one: <<>> is absent, <<v>> is *)
(* the value v.  Time is in milliseconds, as Date.now().                   *)
(***************************************************************************)
EXTENDS Integers, Sequences, FiniteSets, TLC

\* ---------------------------------------------------------------- bounds
MaxIssue == 3
MaxSends == 3
MaxLogins == 1
MaxNow == 60000
\* page requests of the fetches of one Dashboard
MaxPages == 2
\* rows of a loaded playlist, rules of a sort
MaxRows == 3
MaxRules == 2

\* ------------------------------------------------------ program constants
safetyWindow == 60000

\* ------------------------------------------------- environment's choices
\* the steps the clock may take, in ms
TickChoices == {30000}
\* expires_in values (seconds) the token endpoint may report
ExpiresInChoices == {60, 120}
\* statuses the resource API may answer with
Statuses == {200, 401, 429, 500}
\* authorization codes a redirect may carry
Codes == {1}
\* the numbers of items a page may hold
PageSizes == {0, 1, 2}

\* the calls that may be in progress at once, and the clients they and the
\* Dashboard may refer to
Req == {1, 2}
ClientIds == {1, 2, 3}

Absent == << >>
Some(v) == << v >>
IsAbsent(o) == Len(o) = 0
Val(o) == o[1]

VARIABLES
    env,            \* which of CLIENT_ID, REDIRECT_URI the build defines
    localStorage,   \* the entry under TOKEN_STORAGE_KEY
    sessionStorage, \* the entries under STATE_KEY and CODE_VERIFIER_KEY
    tokenSet,       \* App's tokenSet state
    route,          \* "home", "callback", or "away" (at the provider)
    clients,        \* this.tokens of every SpotifyClient still referenced
    cur,            \* the client of the mounted Dashboard, 0 if none
    req,            \* the authorizedFetch calls in progress
    auth,           \* the completeAuthorization call of AuthCallback
    now,            \* Date.now()
    issued,         \* grants the token endpoint has issued
    logins,         \* state/verifier pairs generated so far
    consumed,       \* states whose code exchange has succeeded
    ev,             \* the step taken last and its inputs
    \* the state of the Dashboard component
    user,               \* the profile, absent until it is loaded
    playlists,
    selectedPlaylist,
    tracks,
    sortRules,
    sortedTracks,       \* the value of the sortedTracks memo
    banner,
    isLoadingPlaylists,
    isLoadingTracks,
    newPlaylistName,
    isCreatingPlaylist,
    fetch,              \* the fetchPlaylists or fetchPlaylistTracks call
    create              \* the handleCreatePlaylist call

\* the pipeline's variables and the Dashboard's
pipeVars == << env, localStorage, sessionStorage, tokenSet, route, clients,
               cur, req, auth, now, issued, logins, consumed, ev >>

dashVars == << user, playlists, selectedPlaylist, tracks, sortRules,
               sortedTracks, banner, isLoadingPlaylists, isLoadingTracks,
               newPlaylistName, isCreatingPlaylist, fetch, create >>

vars == << pipeVars, dashVars >>

\* a client slot no request and no Dashboard refers to
NoTokens == [accessToken |-> 0, refreshToken |-> 0, expiresAt |-> 0, scope |-> 0]

NoData == [access_token |-> 0, refresh_token |-> Absent, expires_in |-> 0, scope |-> 0]

\* pc: where the call is; attempt: its parameter; hdr: the token of the
\* request in flight; prev: the argument of refreshAccessToken in flight;
\* status, err: its result; sent, resp, forced: the resource requests it has
\* sent, the statuses it has received, the forced refreshes it has started;
\* wait: the delay in ms of its timer; refreshes: the token requests it has
\* sent
IdleReq == [pc |-> "idle", client |-> 0, attempt |-> 0, hdr |-> 0,
            prev |-> NoTokens, status |-> 0, err |-> "",
            sent |-> 0, resp |-> << >>, forced |-> 0, wait |-> 0,
            refreshes |-> 0]

IdleAuth == [pc |-> "none", code |-> 0, state |-> 0, err |-> ""]

\* observer: the arguments of the calls of the client's observer in the
\* step; header: the retry-after header of the response received in it
Event(op, r, ok, data, state) ==
    [op |-> op, r |-> r, ok |-> ok, data |-> data, state |-> state,
     observer |-> << >>, header |-> << >>]

\* an observer that is called a second time
onTokenRefreshTwice(tokens) == << tokens, tokens >>

\* this.onTokenRefresh?.(tokens), the observer being handleTokenChange
onTokenRefresh(tokens) == << tokens >>

Active(q) == q.pc \in {"refreshing", "fetching", "forced", "backoff"}

\* the calls in progress; the record of a call that has returned or thrown
\* is kept for one step only
Returned == [r \in Req |-> IF Active(req[r]) THEN req[r] ELSE IdleReq]

\* ------------------------------------------------------ credential store
loadStoredTokens(ls) == ls

storeTokens(t) == Some(t)

\* clearStoredAuth without the removal of the token record
clearLocalKeeps(ls) == ls

\* clearStoredAuth: localStorage.removeItem(TOKEN_STORAGE_KEY)
clearLocal(ls) == Absent

\* clearStoredAuth: sessionStorage.removeItem of the verifier and the state
clearSession(ss) == [state |-> Absent, verifier |-> Absent]

\* --------------------------------------------------------- buildTokenSet
\* the refresh token without the fallback to the previous one
buildRefreshTokenNoFallback(data, previousRefreshToken) == data.refresh_token

\* data.refresh_token ?? previousRefreshToken
buildRefreshToken(data, previousRefreshToken) ==
    IF IsAbsent(data.refresh_token) THEN previousRefreshToken
    ELSE data.refresh_token

\* the test for a missing refresh token that lets the empty string pass
buildThrowsOnlyMissing(data, previousRefreshToken) ==
    IsAbsent(buildRefreshToken(data, previousRefreshToken))

\* !refreshToken: undefined or the empty string
buildThrows(data, previousRefreshToken) ==
    LET rt == buildRefreshToken(data, previousRefreshToken)
    IN  IsAbsent(rt) \/ Val(rt) = 0

buildTokenSet(data, previousRefreshToken, t) ==
    [accessToken |-> data.access_token,
     refreshToken |-> Val(buildRefreshToken(data, previousRefreshToken)),
     expiresAt |-> t + data.expires_in * 1000,
     scope |-> data.scope]

\* the successful answers the token endpoint may give for its next grant
Responses ==
    { [access_token |-> issued + 1, refresh_token |-> rt,
       expires_in |-> e, scope |-> issued + 1] :
        rt \in {Absent, Some(0), Some(issued + 1)}, e \in ExpiresInChoices }

\* ------------------------------------------------------------- the page
\* the slot of a client created now: one no call in progress refers to
Pinned(rq) == { rq[r].client : r \in { x \in Req : Active(rq[x]) } }

FreshClient(rq) ==
    CHOOSE c \in ClientIds \ Pinned(rq) :
        \A d \in ClientIds \ Pinned(rq) : c <= d

\* slots nothing refers to any more hold no tokens
Collect(cl, c, rq) ==
    [d \in ClientIds |-> IF d = c \/ d \in Pinned(rq) THEN cl[d] ELSE NoTokens]

\* HomePage renders the Dashboard, and so a new SpotifyClient, exactly when
\* the route is "/" and tokenSet is not null
Mounted(rt, ts) == rt = "home" /\ ~IsAbsent(ts)

\* a full page load: no call of the previous page survives it
Unloaded == [r \in Req |-> IdleReq]

\* App's tokenSet becomes ts on route rt while the calls in progress are rq
\* and the clients' tokens are cl: useMemo makes a new client for a new
\* tokenSet
Render(ts, rt, cl, rq) ==
    /\ UNCHANGED dashVars
    /\ tokenSet' = ts
    /\ route' = rt
    /\ req' = rq
    /\ IF Mounted(rt, ts)
       THEN LET c == FreshClient(rq)
            IN  /\ cur' = c
                /\ clients' = Collect([cl EXCEPT ![c] = Val(ts)], c, rq)
       ELSE /\ cur' = 0
            /\ clients' = Collect(cl, 0, rq)

\* a step that leaves App's state alone
NoRender(rq) ==
    /\ UNCHANGED dashVars
    /\ req' = rq
    /\ clients' = Collect(clients, cur, rq)
    /\ UNCHANGED << tokenSet, route, cur >>

\* the call returns or throws: its locals are gone
Finish(q, pc, status, err) ==
    [q EXCEPT !.pc = pc, !.status = status, !.err = err, !.hdr = 0,
              !.prev = NoTokens]

\* ------------------------------------------------- ensureFreshAccessToken
\* a token that expires exactly at the end of the window taken as fresh
isFreshInclusive(t, tokens) == t + safetyWindow <= tokens.expiresAt

isFresh(t, tokens) == t + safetyWindow < tokens.expiresAt

\* authorizedFetch(input, init, att) of call q whose client holds toks, up
\* to its first request: the resource request when the token is fresh, the
\* token request of refreshAccessToken otherwise
Enter(q, toks, att) ==
    LET c == [q EXCEPT !.attempt = att, !.hdr = 0, !.prev = NoTokens]
    IN  IF isFresh(now, toks)
        THEN [c EXCEPT !.pc = "fetching", !.hdr = toks.accessToken,
                       !.sent = @ + 1]
        ELSE IF ~env.CLIENT_ID
        THEN Finish(c, "failed", 0, "MissingEnv")
        ELSE [c EXCEPT !.pc = "refreshing", !.prev = toks,
                       !.refreshes = @ + 1]

\* the retry without its attempt test
retryOn401Always(status, attempt) == status = 401

\* a retry that is allowed on the second attempt too
retryOn401Twice(status, attempt) == status = 401 /\ attempt <= 1

\* response.status === 401 && attempt === 0
retryOn401(status, attempt) == status = 401 /\ attempt = 0

\* ---------------------------------------------------------------- actions
\* a get, post or put of the mounted Dashboard's client
StartRequest(r) ==
    /\ cur # 0
    /\ ~Active(req[r])
    /\ \A x \in Req : x < r => Active(req[x])
    /\ NoRender([Returned EXCEPT ![r] =
            Enter([IdleReq EXCEPT !.client = cur], clients[cur], 0)])
    /\ ev' = Event("request", r, TRUE, NoData, 0)
    /\ UNCHANGED << env, localStorage, sessionStorage, auth, now, issued,
                    logins, consumed >>

\* a get, post or put issued while no other call is in progress
StartAlone(r) ==
    /\ \A x \in Req : ~Active(req[x])
    /\ StartRequest(r)

\* a get, post or put issued while another call is in progress, as the
\* effects of the Dashboard do for the profile and the playlists
StartOverlapping(r) ==
    /\ \E x \in Req : Active(req[x])
    /\ StartRequest(r)

\* the retry-after header a response may carry: none, a number of seconds,
\* or a text that is no number (an HTTP date)
RetryAfterChoices ==
    { Absent, Some([numeric |-> TRUE, seconds |-> 1]),
      Some([numeric |-> FALSE, seconds |-> 0]) }

\* response.headers.get('retry-after') ?? '2'
retryAfterHeader(h) ==
    IF IsAbsent(h) THEN [numeric |-> TRUE, seconds |-> 2] ELSE Val(h)

\* Number(text) * 1000: absent stands for NaN
retryAfter(h) ==
    LET text == retryAfterHeader(h)
    IN  IF text.numeric THEN Some(text.seconds * 1000) ELSE Absent

\* setTimeout(resolve, ms): a delay that is NaN is taken as 0
timeoutDelay(ms) == IF IsAbsent(ms) THEN 0 ELSE Val(ms)

\* the resource API answers the request in flight with status s and the
\* retry-after header h, which is read on a 429 only
ResourceResponse(r, s, h) ==
    LET q == [req[r] EXCEPT !.resp = Append(@, s), !.hdr = 0]
    IN  /\ req[r].pc = "fetching"
        /\ NoRender([Returned EXCEPT ![r] =
              IF retryOn401(s, q.attempt)
              THEN IF ~env.CLIENT_ID
                   THEN Finish(q, "failed", 0, "MissingEnv")
                   ELSE [q EXCEPT !.pc = "forced", !.forced = @ + 1,
                                  !.refreshes = @ + 1,
                                  !.prev = clients[q.client]]
              ELSE IF s = 429
              THEN [q EXCEPT !.pc = "backoff",
                             !.wait = timeoutDelay(retryAfter(h))]
              ELSE Finish(q, "done", s, "")])
        /\ (s # 429) => IsAbsent(h)
        /\ ev' = [Event("response", r, s = 200, NoData, 0)
                    EXCEPT !.header = h]
        /\ UNCHANGED << env, localStorage, sessionStorage, auth, now, issued,
                        logins, consumed >>

\* the setTimeout of the 429 branch fires, after its delay, which the
\* clock of the model does not measure: authorizedFetch(.., attempt + 1)
BackoffElapsed(r) ==
    /\ req[r].pc = "backoff"
    /\ req[r].sent < MaxSends
    /\ NoRender([Returned EXCEPT ![r] =
            Enter([req[r] EXCEPT !.wait = 0], clients[req[r].client],
                  req[r].attempt + 1)])
    /\ ev' = Event("backoff", r, TRUE, NoData, 0)
    /\ UNCHANGED << env, localStorage, sessionStorage, auth, now, issued,
                    logins, consumed >>

\* refreshAccessToken: the token endpoint answers with a non-success status
RefreshFailed(r) ==
    /\ req[r].pc \in {"refreshing", "forced"}
    /\ localStorage' = clearLocal(localStorage)
    /\ sessionStorage' = clearSession(sessionStorage)
    /\ NoRender([Returned EXCEPT ![r] =
            Finish(req[r], "failed", 0, "SessionExpired")])
    /\ ev' = Event("refresh", r, FALSE, NoData, 0)
    /\ UNCHANGED << env, auth, now, issued, logins, consumed >>

\* refreshAccessToken: the token endpoint answers with data; the caller
\* (ensureFreshAccessToken or the 401 branch) then goes on
RefreshAnswered(r, data) ==
    LET q == req[r]
        previous == q.prev
        refreshed == buildTokenSet(data, Some(previous.refreshToken), now)
        cl == [clients EXCEPT ![q.client] = refreshed]
    IN  /\ q.pc \in {"refreshing", "forced"}
        /\ issued < MaxIssue
        /\ issued' = issued + 1
        /\ ev' = [Event("refresh", r, TRUE, data, 0) EXCEPT !.observer =
                    IF buildThrows(data, Some(previous.refreshToken))
                    THEN << >> ELSE onTokenRefresh(Some(refreshed))]
        /\ IF buildThrows(data, Some(previous.refreshToken))
           THEN /\ NoRender([Returned EXCEPT ![r] =
                      Finish(q, "failed", 0, "MissingRefreshToken")])
                /\ UNCHANGED localStorage
           ELSE /\ localStorage' = storeTokens(refreshed)
                /\ Render(Some(refreshed), route, cl,
                      [Returned EXCEPT ![r] =
                          IF q.pc = "refreshing"
                          THEN [q EXCEPT !.pc = "fetching",
                                         !.hdr = refreshed.accessToken,
                                         !.prev = NoTokens,
                                         !.sent = @ + 1]
                          ELSE Enter(q, refreshed, q.attempt + 1)])
        /\ UNCHANGED << env, sessionStorage, auth, now, logins, consumed >>

\* handleLogout: client.logout(), whose observer is handleTokenChange
Logout ==
    /\ cur # 0
    /\ localStorage' = clearLocal(clearLocal(localStorage))
    /\ sessionStorage' = clearSession(clearSession(sessionStorage))
    /\ Render(Absent, route, clients, Returned)
    /\ ev' = [Event("logout", 0, TRUE, NoData, 0)
                EXCEPT !.observer = onTokenRefresh(Absent)]
    /\ UNCHANGED << env, auth, now, issued, logins, consumed >>

Tick(d) ==
    /\ now + d <= MaxNow
    /\ now' = now + d
    /\ NoRender(Returned)
    /\ ev' = Event("tick", 0, TRUE, NoData, 0)
    /\ UNCHANGED << env, localStorage, sessionStorage, auth, issued, logins,
                    consumed >>

\* ------------------------------------------------------------------ login
\* a login that asserts the client identifier only
configuredClientOnly == env.CLIENT_ID

\* assertEnv of the client identifier and of the redirect URI, the first
\* statements of startSpotifyLogin and completeAuthorization
configured == env.CLIENT_ID /\ env.REDIRECT_URI

\* a full page load of the application at route rt
Load(rt) == Render(loadStoredTokens(localStorage), rt, clients, Unloaded)

\* startSpotifyLogin: stores a new verifier and state and leaves the page
\* for the provider; throws before that when the configuration is missing
startSpotifyLogin(ss) ==
    IF configured
    THEN /\ sessionStorage' = [state |-> Some(logins + 1),
                               verifier |-> Some(logins + 1)]
         /\ logins' = logins + 1
         /\ auth' = IdleAuth
         /\ Render(Absent, "away", clients, Unloaded)
    ELSE /\ sessionStorage' = ss
         /\ NoRender(Returned)
         /\ UNCHANGED << logins, auth >>

\* the login button of LandingScreen
StartLogin ==
    /\ route = "home"
    /\ IsAbsent(tokenSet)
    /\ logins < MaxLogins
    /\ startSpotifyLogin(sessionStorage)
    /\ ev' = Event("login", 0, configured, NoData, 0)
    /\ UNCHANGED << env, localStorage, now, issued, consumed >>

\* the state check without the comparison
stateMismatchOnlyMissing(expectedState, returnedState) ==
    IsAbsent(expectedState)

\* !expectedState || returnedState !== expectedState
stateMismatch(expectedState, returnedState) ==
    IsAbsent(expectedState) \/ returnedState # Val(expectedState)

\* the checks of completeAuthorization before its token request: the error
\* thrown, or "" when the request is sent
authCheck(ss, returnedState) ==
    IF ~configured THEN "MissingEnv"
    ELSE IF stateMismatch(ss.state, returnedState) THEN "StateMismatch"
    ELSE IF IsAbsent(ss.verifier) THEN "MissingVerifier"
    ELSE ""

\* the page is loaded at /callback?code=..&state=..: AuthCallback's effect
\* calls completeAuthorization(code, state)
OpenCallback(code, returnedState) ==
    LET e == authCheck(sessionStorage, returnedState)
    IN  /\ Load("callback")
        /\ auth' = [pc |-> IF e = "" THEN "exchanging" ELSE "error",
                    code |-> code, state |-> returnedState, err |-> e]
        /\ ev' = Event("callback", 0, e = "", NoData, returnedState)
        /\ UNCHANGED << env, localStorage, sessionStorage, now, issued,
                        logins, consumed >>

\* completeAuthorization: the token endpoint answers with a non-success
\* status
ExchangeFailed ==
    /\ auth.pc = "exchanging"
    /\ auth' = [auth EXCEPT !.pc = "error", !.err = "TokenExchangeFailed"]
    /\ NoRender(Returned)
    /\ ev' = Event("exchange", 0, FALSE, NoData, auth.state)
    /\ UNCHANGED << env, localStorage, sessionStorage, now, issued, logins,
                    consumed >>

\* a successful exchange that leaves the state and the verifier in place
consumePendingKeeps(ss) == ss

\* sessionStorage.removeItem of the state and the verifier after the tokens
\* are stored
consumePending(ss) == [state |-> Absent, verifier |-> Absent]

\* completeAuthorization: the token endpoint answers with data; on success
\* AuthCallback calls onSuccess(tokenSet) and navigates to "/"
ExchangeAnswered(data) ==
    LET tokens == buildTokenSet(data, Absent, now)
    IN  /\ auth.pc = "exchanging"
        /\ issued < MaxIssue
        /\ issued' = issued + 1
        /\ ev' = Event("exchange", 0, TRUE, data, auth.state)
        /\ IF buildThrows(data, Absent)
           THEN /\ auth' = [auth EXCEPT !.pc = "error",
                                        !.err = "MissingRefreshToken"]
                /\ NoRender(Returned)
                /\ UNCHANGED << localStorage, sessionStorage, consumed >>
           ELSE /\ localStorage' = storeTokens(tokens)
                /\ sessionStorage' = consumePending(sessionStorage)
                /\ consumed' = consumed \cup {auth.state}
                /\ auth' = [auth EXCEPT !.pc = "done"]
                /\ Render(Some(tokens), "home", clients, Returned)
        /\ UNCHANGED << env, now, logins >>

\* the retry button of AuthCallback: onSuccess(null); startSpotifyLogin()
RetryLogin ==
    /\ route = "callback"
    /\ auth.pc = "error"
    /\ logins < MaxLogins
    /\ localStorage' = clearLocal(localStorage)
    /\ IF configured
       THEN startSpotifyLogin(clearSession(sessionStorage))
       ELSE /\ sessionStorage' = clearSession(sessionStorage)
            /\ Render(Absent, route, clients, Returned)
            /\ UNCHANGED << logins, auth >>
    /\ ev' = Event("retry", 0, configured, NoData, 0)
    /\ UNCHANGED << env, now, issued, consumed >>

\* the page is loaded at "/"
OpenHome ==
    /\ Load("home")
    /\ auth' = IdleAuth
    /\ ev' = Event("home", 0, TRUE, NoData, 0)
    /\ UNCHANGED << env, localStorage, sessionStorage, now, issued, logins,
                    consumed >>

\* ============================================================= Dashboard
\* ----------------------------------------------------------- sort engine
\* Object.keys(sortFieldOptions), in their order
SortFields == << "name", "mainArtist", "album", "addedAt", "popularity",
                 "durationMs" >>

Directions == {"asc", "desc"}

\* the rules shown when the Dashboard is mounted; a rule is addressed by its
\* position in the list, which its unique id stands for
defaultSortRules == << [field |-> "addedAt", direction |-> "desc"],
                       [field |-> "popularity", direction |-> "desc"] >>

\* the letters of a string without their case and their accents: the
\* strings 2k-1 and 2k differ in case or accents only
baseLetters(s) == (s + 1) \div 2

sign(n) == IF n < 0 THEN -1 ELSE IF n > 0 THEN 1 ELSE 0

\* a.localeCompare(b, 'vi', { sensitivity: 'base' })
compareStrings(a, b) == sign(baseLetters(a) - baseLetters(b))

compareNumbers(a, b) == a - b

\* new Date(a).getTime(): the instant a timestamp names, 0 for null
getTime(a) == IF IsAbsent(a) THEN 0 ELSE Val(a)

compareDates(a, b) == getTime(a) - getTime(b)

\* a popularity that is compared as it is, null below every number
popularityOrLowest(p) == IF IsAbsent(p) THEN -1 ELSE Val(p)

\* a.popularity ?? 0
popularityOrZero(p) == IF IsAbsent(p) THEN 0 ELSE Val(p)

\* the switch on rule.field
fieldComparison(field, a, b) ==
    CASE field = "name" -> compareStrings(a.name, b.name)
      [] field = "mainArtist" -> compareStrings(a.mainArtist, b.mainArtist)
      [] field = "album" -> compareStrings(a.album, b.album)
      [] field = "addedAt" -> compareDates(a.addedAt, b.addedAt)
      [] field = "popularity" ->
            compareNumbers(popularityOrZero(a.popularity),
                           popularityOrZero(b.popularity))
      [] field = "durationMs" -> compareNumbers(a.durationMs, b.durationMs)
      [] OTHER -> 0

\* a direction that is always ascending
directionAscending(rule) == 1

\* rule.direction === 'asc' ? 1 : -1
direction(rule) == IF rule.direction = "asc" THEN 1 ELSE -1

\* rows that tie on every rule left as they come, the second after the first
tieBreakLater(a, b) == 1

\* compareNumbers(a.originalIndex, b.originalIndex)
tieBreak(a, b) == compareNumbers(a.originalIndex, b.originalIndex)

\* the comparator passed to cloned.sort
RECURSIVE compareRows(_, _, _)
compareRows(rules, a, b) ==
    IF rules = << >> THEN tieBreak(a, b)
    ELSE LET comparison == fieldComparison(Head(rules).field, a, b)
         IN  IF comparison # 0 THEN comparison * direction(Head(rules))
             ELSE compareRows(Tail(rules), a, b)

\* Array.prototype.sort, as the insertion sort of the engine: key is moved
\* before the elements the comparator puts after it, that is, it lands
\* behind the last element the comparator does not put after it
insertSorted(arr, key, rules) ==
    LET stops == { j \in 1 .. Len(arr) : compareRows(rules, arr[j], key) <= 0 }
        p == IF stops = {} THEN 0
             ELSE CHOOSE j \in stops : \A k \in stops : k <= j
    IN  SubSeq(arr, 1, p) \o << key >> \o SubSeq(arr, p + 1, Len(arr))

\* the elements arr[lo .. hi] inserted one after the other into done, the
\* first half of them before the second
RECURSIVE insertRange(_, _, _, _, _)
insertRange(done, arr, lo, hi, rules) ==
    IF lo > hi THEN done
    ELSE IF lo = hi THEN insertSorted(done, arr[lo], rules)
    ELSE LET mid == (lo + hi) \div 2
             left == insertRange(done, arr, lo, mid, rules)
         IN  IF Len(left) = 0 THEN left
             ELSE insertRange(left, arr, mid + 1, hi, rules)

arraySort(arr, rules) == insertRange(<< >>, arr, 1, Len(arr), rules)

\* the sortedTracks memo
sortedTracksOf(tr, rules) ==
    IF Len(tr) = 0 \/ Len(rules) = 0 THEN tr ELSE arraySort(tr, rules)

\* a sort of the tracks array itself
inputSortedInPlace(tr, rules) == sortedTracksOf(tr, rules)

\* the tracks array after the memo has run: the sort works on the copy
\* [...tracks]
inputAfterSort(tr, rules) == tr

\* a render in which tracks is tr and sortRules is rules
Memo(tr, rules) ==
    /\ tracks' = inputAfterSort(tr, rules)
    /\ sortRules' = rules
    /\ sortedTracks' = sortedTracksOf(tr, rules)

\* --------------------------------------------- paginated collection fetch
\* A URL or a path is a record: abs tells an absolute URL of the API's
\* origin ('http...') from a path, path holds the segments of the pathname,
\* id the playlist a segment names (0 for none) and offset the page the
\* query asks for.
\* the pathname of 'https://api.spotify.com/v1'
API_BASE == << "v1" >>

\* input.startsWith('http') ? input : `${API_BASE}${input}`
requestUrl(input) ==
    IF input.abs THEN input
    ELSE [input EXCEPT !.abs = TRUE, !.path = API_BASE \o @]

\* the path a fetch starts from: '/me/playlists?limit=50' or
\* `/playlists/${playlist.id}/tracks?limit=100`
firstPath(kind, p) ==
    IF kind = "playlists"
    THEN [abs |-> FALSE, path |-> << "me", "playlists" >>, id |-> 0,
          offset |-> 0]
    ELSE [abs |-> FALSE, path |-> << "playlists", "tracks" >>, id |-> p,
          offset |-> 0]

\* `${nextUrl.pathname}${nextUrl.search}` of new URL(response.next)
pathOfNext(next) == [next EXCEPT !.abs = FALSE]

\* the next link of the page at offset k - 1 of the collection a fetch has
\* started from: the absolute URL of its page at offset k
nextLink(kind, p, k) == [requestUrl(firstPath(kind, p)) EXCEPT !.offset = k]

\* 'Không rõ', the name given where the provider gives none
unknownName == 9

\* the items of a page of playlist tracks: a removed track, a track without
\* a uri, and two tracks, the second a local file without an id, without a
\* popularity, without artists and without a date
ItemChoices ==
    { [added_at |-> Some(1), track |-> Absent],
      [added_at |-> Some(1),
       track |-> Some([id |-> Absent, uri |-> 0, name |-> 1,
                       popularity |-> Some(10), duration_ms |-> 100,
                       artists |-> << 1 >>, album |-> 1])],
      [added_at |-> Some(2),
       track |-> Some([id |-> Some(1), uri |-> 1, name |-> 1,
                       popularity |-> Some(50), duration_ms |-> 100,
                       artists |-> << 1, 3 >>, album |-> 1])],
      [added_at |-> Absent,
       track |-> Some([id |-> Absent, uri |-> 2, name |-> 3,
                       popularity |-> Absent, duration_ms |-> 200,
                       artists |-> << >>, album |-> 3])] }

\* the items of a page of playlists
PlaylistChoices ==
    { [id |-> 1, name |-> 1, description |-> Absent, images |-> << >>,
       tracks |-> [total |-> 2], owner |-> [display_name |-> Absent]],
      [id |-> 2, name |-> 3, description |-> Some(1),
       images |-> << [url |-> 1], [url |-> 2] >>,
       tracks |-> [total |-> 0], owner |-> [display_name |-> Some(1)]] }

\* the PlaylistSummary of an item of a page of playlists
toSummary(item) ==
    [id |-> item.id,
     name |-> item.name,
     description |-> item.description,
     totalTracks |-> item.tracks.total,
     imageUrl |-> IF item.images = << >> THEN Absent
                  ELSE Some(item.images[1].url),
     ownerName |-> item.owner.display_name]

\* !item.track || !item.track.uri
skipped(item) == IsAbsent(item.track) \/ Val(item.track).uri = 0

\* the TrackRow of an item that is not skipped; its id is the track's, or
\* `${playlist.id}-${index}`
toRow(item, p, index) ==
    LET t == Val(item.track)
    IN  [id |-> IF IsAbsent(t.id) THEN << p, index >> ELSE << Val(t.id) >>,
         uri |-> t.uri,
         name |-> t.name,
         artists |-> t.artists,
         mainArtist |-> IF t.artists = << >> THEN unknownName
                        ELSE t.artists[1],
         album |-> t.album,
         popularity |-> t.popularity,
         durationMs |-> t.duration_ms,
         addedAt |-> item.added_at,
         originalIndex |-> index]

\* an index that counts the skipped items too
indexAfterAny(item, index) == index + 1

\* index += 1 after the push, which a skipped item does not reach
indexAfter(item, index) == IF skipped(item) THEN index ELSE index + 1

\* the for loop over response.items of fetchPlaylistTracks: collected and
\* index after it
RECURSIVE collectRows(_, _, _, _)
collectRows(items, p, collected, index) ==
    IF items = << >> THEN [collected |-> collected, index |-> index]
    ELSE collectRows(Tail(items), p,
            IF skipped(Head(items)) THEN collected
            ELSE Append(collected, toRow(Head(items), p, index)),
            indexAfter(Head(items), index))

\* collected.push(...mapped) of fetchPlaylists
collectSummaries(items, collected) ==
    collected \o [i \in 1 .. Len(items) |-> toSummary(items[i])]

\* pc: "idle", "waiting" for the answer to a page request, "done" or
\* "failed"; kind: "playlists" or "tracks"; playlist: the id of the argument
\* of fetchPlaylistTracks; selected: the selectedPlaylist fetchPlaylists has
\* closed over; url, collected, index, response: the locals; request: the
\* URL of the page request in flight; sent, answered: the page requests
\* sent and answered; total: the page requests sent since the Dashboard was
\* mounted
IdleFetch == [pc |-> "idle", kind |-> "", playlist |-> 0, selected |-> Absent,
              url |-> Absent, collected |-> << >>, index |-> 0,
              response |-> Absent, request |-> Absent, sent |-> 0,
              answered |-> 0, total |-> 0]

\* fetchPlaylists() or fetchPlaylistTracks(playlist) up to its first
\* client.get
startFetch(kind, p, sel) ==
    [IdleFetch EXCEPT !.pc = "waiting", !.kind = kind, !.playlist = p,
                      !.selected = sel,
                      !.url = Some(firstPath(kind, p)),
                      !.request = Some(requestUrl(firstPath(kind, p))),
                      !.sent = 1, !.total = fetch.total + 1]

\* the pages the provider may answer a page request with
ItemSeqs(choices) == UNION { [1 .. n -> choices] : n \in PageSizes }

Pages(f) ==
    { [items |-> its, next |-> nx] :
        its \in ItemSeqs(IF f.kind = "playlists" THEN PlaylistChoices
                         ELSE ItemChoices),
        nx \in {Absent} \cup
               (IF f.total < MaxPages
                THEN {Some(nextLink(f.kind, f.playlist, f.sent))}
                ELSE {}) }

\* the banner of setUserFacingError and of setBanner
Banner(type, message, n) == [type |-> type, message |-> message, n |-> n]

\* the locals of the fetch after the page is taken in
taken(f, page) ==
    IF f.kind = "playlists"
    THEN [f EXCEPT !.response = Some(page), !.answered = @ + 1,
                   !.request = Absent,
                   !.collected = collectSummaries(page.items, @)]
    ELSE LET got == collectRows(page.items, f.playlist, f.collected, f.index)
         IN  [f EXCEPT !.response = Some(page), !.answered = @ + 1,
                       !.request = Absent,
                       !.collected = got.collected, !.index = got.index]

\* -------------------------------------------------------- playlist writer
\* the number of uris of one request, the second argument of chunkArray
batchSize == 100

\* a chunkArray that leaves the last, shorter chunk out
RECURSIVE chunkArrayFullOnly(_, _)
chunkArrayFullOnly(source, size) ==
    IF Len(source) < size THEN << >>
    ELSE << SubSeq(source, 1, size) >>
            \o chunkArrayFullOnly(SubSeq(source, size + 1, Len(source)), size)

\* chunkArray(source, chunkSize): source.slice(i, i + chunkSize) for
\* i = 0, chunkSize, 2 * chunkSize, .. below source.length
RECURSIVE chunkArray(_, _)
chunkArray(source, size) ==
    IF source = << >> THEN << >>
    ELSE IF Len(source) <= size THEN << source >>
    ELSE << SubSeq(source, 1, size) >>
            \o chunkArray(SubSeq(source, size + 1, Len(source)), size)

\* sortedTracks.map((track) => track.uri).filter(Boolean)
urisOf(st) ==
    SelectSeq([i \in 1 .. Len(st) |-> st[i].uri], LAMBDA u : u # 0)

\* a string of the form is the sequence of its characters
RECURSIVE trimStart(_)
trimStart(s) ==
    IF s # << >> /\ Head(s) = " " THEN trimStart(Tail(s)) ELSE s

RECURSIVE trimEnd(_)
trimEnd(s) ==
    IF s # << >> /\ s[Len(s)] = " " THEN trimEnd(SubSeq(s, 1, Len(s) - 1))
    ELSE s

trim(s) == trimEnd(trimStart(s))

\* what the name field of the form may hold
NameChoices == { << >>, << " " >>, << "M" >>, << " ", "M", " " >> }

\* `Sortify • ${playlist.name}`
sortifyName(playlist) == << "S", " ", "n" >>

\* pc: "idle", "returned" (before any request), "creating" (the playlist),
\* "adding" (a batch), "reloading" (in fetchPlaylists), "done" or "failed";
\* err: the validation error; name, uris: what is written; chunks, cursor:
\* the batches and how many of them have been sent; body: the uris of the
\* request in flight; sent, answered: the requests sent and answered;
\* written: the uris of the batches the provider has answered with success
IdleCreate == [pc |-> "idle", err |-> "", name |-> << >>, uris |-> << >>,
               chunks |-> << >>, cursor |-> 0, body |-> << >>, id |-> 0,
               sent |-> 0, answered |-> 0, written |-> << >>]

Creating(c) == c.pc \in {"creating", "adding", "reloading"}

\* ------------------------------------------------ the Dashboard's actions
\* The calls of the Dashboard are started one at a time: a fetch while no
\* other fetch and no handleCreatePlaylist is in progress.
formVars == << user, newPlaylistName >>

listVars == << playlists, selectedPlaylist, isLoadingPlaylists >>

trackVars == << tracks, sortRules, sortedTracks, isLoadingTracks >>

\* fetchPlaylists(), as the effect on fetchPlaylists calls it
StartFetchPlaylists ==
    /\ cur # 0
    /\ fetch.pc # "waiting"
    /\ fetch.total < MaxPages
    /\ ~Creating(create)
    /\ fetch' = startFetch("playlists", 0, selectedPlaylist)
    /\ isLoadingPlaylists' = TRUE
    /\ UNCHANGED << pipeVars, formVars, playlists, selectedPlaylist,
                    trackVars, banner, isCreatingPlaylist, create >>

\* fetchPlaylistTracks(selectedPlaylist), as the effect on selectedPlaylist
\* calls it
StartFetchTracks ==
    /\ cur # 0
    /\ fetch.pc # "waiting"
    /\ fetch.total < MaxPages
    /\ ~Creating(create)
    /\ ~IsAbsent(selectedPlaylist)
    /\ fetch' = startFetch("tracks", Val(selectedPlaylist).id,
                           selectedPlaylist)
    /\ isLoadingTracks' = TRUE
    /\ UNCHANGED << pipeVars, formVars, listVars, tracks, sortRules,
                    sortedTracks, banner, isCreatingPlaylist, create >>

\* handleSelectPlaylist(playlists[i])
SelectPlaylist(i) ==
    /\ cur # 0
    /\ i \in 1 .. Len(playlists)
    /\ selectedPlaylist' = Some(playlists[i])
    /\ newPlaylistName' = sortifyName(playlists[i])
    /\ UNCHANGED << pipeVars, user, playlists, isLoadingPlaylists, trackVars,
                    banner, isCreatingPlaylist, fetch, create >>

\* the await fetchPlaylists() of handleCreatePlaylist returns, and so does
\* the handler, through its finally
Reloaded ==
    /\ create' = IF create.pc = "reloading"
                 THEN [create EXCEPT !.pc = "done"] ELSE create
    /\ isCreatingPlaylist' = IF create.pc = "reloading" THEN FALSE
                             ELSE isCreatingPlaylist

\* client.get(url) returns the page: the rest of the loop body, and, when
\* the page has no next link, the rest of the fetch
PageAnswered(page) ==
    LET f == taken(fetch, page)
        path == pathOfNext(Val(page.next))
    IN  /\ fetch.pc = "waiting"
        /\ IF IsAbsent(page.next)
           THEN /\ fetch' = [f EXCEPT !.pc = "done", !.url = Absent]
                /\ Reloaded
                /\ IF fetch.kind = "playlists"
                   THEN /\ playlists' = f.collected
                        /\ selectedPlaylist' =
                              IF IsAbsent(fetch.selected) /\ Len(f.collected) > 0
                              THEN Some(f.collected[1]) ELSE selectedPlaylist
                        /\ isLoadingPlaylists' = FALSE
                        /\ UNCHANGED << trackVars, banner >>
                   ELSE /\ Memo(f.collected, sortRules)
                        /\ banner' = Some(Banner("info", "loaded",
                                                 Len(f.collected)))
                        /\ isLoadingTracks' = FALSE
                        /\ UNCHANGED listVars
           ELSE /\ fetch' = [f EXCEPT !.url = Some(path),
                                      !.request = Some(requestUrl(path)),
                                      !.sent = @ + 1, !.total = @ + 1]
                /\ UNCHANGED << listVars, trackVars, banner,
                                isCreatingPlaylist, create >>
        /\ UNCHANGED << pipeVars, formVars >>

\* a catch that publishes the pages received before the failure
PageFailedPublishes ==
    /\ fetch.pc = "waiting"
    /\ fetch' = [fetch EXCEPT !.pc = "failed", !.request = Absent,
                              !.answered = @ + 1]
    /\ banner' = Some(Banner("error", "apiError", 0))
    /\ Reloaded
    /\ IF fetch.kind = "playlists"
       THEN /\ isLoadingPlaylists' = FALSE
            /\ playlists' = fetch.collected
            /\ UNCHANGED << selectedPlaylist, trackVars >>
       ELSE /\ isLoadingTracks' = FALSE
            /\ Memo(fetch.collected, sortRules)
            /\ UNCHANGED listVars
    /\ UNCHANGED << pipeVars, formVars >>

\* client.get(url) throws: the catch and the finally of the fetch
PageFailed ==
    /\ fetch.pc = "waiting"
    /\ fetch' = [fetch EXCEPT !.pc = "failed", !.request = Absent,
                              !.answered = @ + 1]
    /\ banner' = Some(Banner("error", "apiError", 0))
    /\ Reloaded
    /\ IF fetch.kind = "playlists"
       THEN /\ isLoadingPlaylists' = FALSE
            /\ UNCHANGED << playlists, selectedPlaylist, trackVars >>
       ELSE /\ isLoadingTracks' = FALSE
            /\ UNCHANGED << listVars, tracks, sortRules, sortedTracks >>
    /\ UNCHANGED << pipeVars, formVars >>

\* the timeout of the banner's effect
ClearBanner ==
    /\ ~IsAbsent(banner)
    /\ banner' = Absent
    /\ UNCHANGED << pipeVars, formVars, listVars, trackVars,
                    isCreatingPlaylist, fetch, create >>

\* ---- the sort rules
activeSortFields(rules) == { rules[i].field : i \in 1 .. Len(rules) }

availableFields(rules) ==
    SelectSeq(SortFields, LAMBDA field : field \notin activeSortFields(rules))

\* toggleSortField, the button that adds a rule; the rule lists of a
\* Dashboard that has a playlist selected are kept to MaxRules rules
ToggleSortField ==
    /\ cur # 0
    /\ availableFields(sortRules) # << >>
    /\ Len(sortRules) < MaxRules \/ IsAbsent(selectedPlaylist)
    /\ Memo(tracks, Append(sortRules,
            [field |-> availableFields(sortRules)[1], direction |-> "asc"]))
    /\ UNCHANGED << pipeVars, formVars, listVars, isLoadingTracks, banner,
                    isCreatingPlaylist, fetch, create >>

\* { ...rule, ...patch, id: rule.id }
patched(rule, patch) ==
    [field |-> IF IsAbsent(patch.field) THEN rule.field ELSE Val(patch.field),
     direction |-> IF IsAbsent(patch.direction) THEN rule.direction
                   ELSE Val(patch.direction)]

\* selects whose options are all enabled
PatchesAnyField(rules, i) ==
    { [field |-> Some(f), direction |-> Absent] :
        f \in { SortFields[k] : k \in 1 .. Len(SortFields) }
                \ {rules[i].field} }
    \cup { [field |-> Absent, direction |-> Some(d)] :
            d \in Directions \ {rules[i].direction} }

\* the patches of the two selects of a rule: another field that no rule
\* has, its option being enabled, or the other direction
Patches(rules, i) ==
    { [field |-> Some(f), direction |-> Absent] :
        f \in { SortFields[k] : k \in 1 .. Len(SortFields) }
                \ activeSortFields(rules) }
    \cup { [field |-> Absent, direction |-> Some(d)] :
            d \in Directions \ {rules[i].direction} }

\* updateSortRule(id, patch) for the rule at position i
UpdateSortRule(i, patch) ==
    /\ cur # 0
    /\ i \in 1 .. Len(sortRules)
    /\ patch \in Patches(sortRules, i)
    /\ Memo(tracks, [sortRules EXCEPT ![i] = patched(@, patch)])
    /\ UNCHANGED << pipeVars, formVars, listVars, isLoadingTracks, banner,
                    isCreatingPlaylist, fetch, create >>

\* removeSortRule(id) for the rule at position i
RemoveSortRule(i) ==
    /\ cur # 0
    /\ i \in 1 .. Len(sortRules)
    /\ Memo(tracks, SubSeq(sortRules, 1, i - 1)
                    \o SubSeq(sortRules, i + 1, Len(sortRules)))
    /\ UNCHANGED << pipeVars, formVars, listVars, isLoadingTracks, banner,
                    isCreatingPlaylist, fetch, create >>

\* ---- the form of the new playlist
\* the name field's onChange
SetNewPlaylistName(name) ==
    /\ cur # 0
    /\ ~Creating(create)
    /\ name # newPlaylistName
    /\ newPlaylistName' = name
    /\ UNCHANGED << pipeVars, user, listVars, trackVars, banner,
                    isCreatingPlaylist, fetch, create >>

\* the checks of handleCreatePlaylist before its first request: "" when
\* the request is sent, "ignored" for the return without a message
createCheck(sel, usr, uris, name) ==
    IF IsAbsent(sel) \/ IsAbsent(usr) THEN "ignored"
    ELSE IF Len(uris) = 0 THEN "EmptyTrackSet"
    ELSE IF trim(name) = << >> THEN "EmptyName"
    ELSE ""

\* handleCreatePlaylist, the form's onSubmit, up to its first client.post;
\* the submit button is disabled while isCreatingPlaylist is set and while
\* sortedTracks is empty
HandleCreatePlaylist ==
    LET uris == urisOf(sortedTracks)
        e == createCheck(selectedPlaylist, user, uris, newPlaylistName)
    IN  /\ cur # 0
        /\ ~isCreatingPlaylist /\ Len(sortedTracks) > 0
        /\ ~Creating(create)
        /\ fetch.pc # "waiting"
        /\ fetch.total < MaxPages
        /\ IF e = ""
           THEN /\ create' = [IdleCreate EXCEPT !.pc = "creating",
                                                !.name = trim(newPlaylistName),
                                                !.uris = uris, !.sent = 1]
                /\ isCreatingPlaylist' = TRUE
                /\ UNCHANGED banner
           ELSE /\ create' = [IdleCreate EXCEPT !.pc = "returned", !.err = e]
                /\ banner' = IF e = "ignored" THEN banner
                             ELSE Some(Banner("error", e, 0))
                /\ UNCHANGED isCreatingPlaylist
        /\ UNCHANGED << pipeVars, formVars, listVars, trackVars, fetch >>

\* a catch that takes back the batches written so far
createRolledBack ==
    /\ create' = [create EXCEPT !.pc = "failed", !.body = << >>,
                                !.answered = @ + 1, !.sent = @ + 1,
                                !.written = << >>]
    /\ banner' = Some(Banner("error", "apiError", 0))
    /\ isCreatingPlaylist' = FALSE
    /\ UNCHANGED << formVars, listVars, fetch >>

\* a client.post of handleCreatePlaylist throws: its catch and its finally
createFailed ==
    /\ create' = [create EXCEPT !.pc = "failed", !.body = << >>,
                                !.answered = @ + 1]
    /\ banner' = Some(Banner("error", "apiError", 0))
    /\ isCreatingPlaylist' = FALSE
    /\ UNCHANGED << formVars, listVars, fetch >>

\* the for loop over the chunks, k of them sent and answered: the next
\* batch is sent, or, after the last one, the form is reset and
\* fetchPlaylists is awaited
nextBatch(c, chunks, k) ==
    IF k < Len(chunks)
    THEN /\ create' = [c EXCEPT !.pc = "adding", !.chunks = chunks,
                                !.cursor = k + 1, !.body = chunks[k + 1],
                                !.sent = @ + 1, !.answered = @ + 1,
                                !.written = @ \o c.body]
         /\ UNCHANGED << formVars, listVars, banner, isCreatingPlaylist,
                         fetch >>
    ELSE /\ create' = [c EXCEPT !.pc = "reloading", !.chunks = chunks,
                                !.body = << >>, !.answered = @ + 1,
                                !.written = @ \o c.body]
         /\ banner' = Some(Banner("success", "created", 0))
         /\ newPlaylistName' = << >>
         /\ fetch' = startFetch("playlists", 0, selectedPlaylist)
         /\ isLoadingPlaylists' = TRUE
         /\ UNCHANGED << user, playlists, selectedPlaylist,
                         isCreatingPlaylist >>

\* the answer to the request that creates the playlist
CreateAnswered(success) ==
    /\ create.pc = "creating"
    /\ IF success
       THEN nextBatch([create EXCEPT !.id = 1],
                      chunkArray(create.uris, batchSize), 0)
       ELSE createFailed
    /\ UNCHANGED << pipeVars, trackVars >>

\* the answer to the request that adds a batch
BatchAnswered(success) ==
    /\ create.pc = "adding"
    /\ IF success THEN nextBatch(create, create.chunks, create.cursor)
       ELSE createFailed
    /\ UNCHANGED << pipeVars, trackVars >>

\* ---- the Dashboard when it is mounted
InitDashboard ==
    /\ user = Absent
    /\ playlists = << >>
    /\ selectedPlaylist = Absent
    /\ tracks = << >>
    /\ sortRules = defaultSortRules
    /\ sortedTracks = sortedTracksOf(<< >>, defaultSortRules)
    /\ banner = Absent
    /\ isLoadingPlaylists = TRUE
    /\ isLoadingTracks = FALSE
    /\ newPlaylistName = << >>
    /\ isCreatingPlaylist = FALSE
    /\ fetch = IdleFetch
    /\ create = IdleCreate

\* ------------------------------------------------------- initial states
\* a record an earlier session has stored
Stored(e) == [accessToken |-> 1, refreshToken |-> 1, expiresAt |-> e * 1000,
              scope |-> 1]

\* what the storage may hold when the page is first loaded at "/": both
\* storages outlive the page, localStorage is shared with the other tabs of
\* the origin, and completeAuthorization itself provides for a state that is
\* stored without its verifier
InitStorage ==
    /\ \/ localStorage = Absent /\ issued = 0
       \/ \E e \in ExpiresInChoices : localStorage = Some(Stored(e)) /\ issued = 1
    /\ \/ sessionStorage = [state |-> Absent, verifier |-> Absent] /\ logins = 0
       \/ sessionStorage = [state |-> Some(1), verifier |-> Some(1)] /\ logins = 1
       \/ sessionStorage = [state |-> Some(1), verifier |-> Absent] /\ logins = 1

InitPage ==
    /\ tokenSet = loadStoredTokens(localStorage)
    /\ route = "home"
    /\ cur = IF IsAbsent(tokenSet) THEN 0 ELSE 1
    /\ clients = [c \in ClientIds |->
                    IF c = cur THEN Val(tokenSet) ELSE NoTokens]
    /\ req = Unloaded
    /\ auth = IdleAuth
    /\ now = 0
    /\ consumed = {}
    /\ ev = Event("home", 0, TRUE, NoData, 0)

\* a deployment in which every setting is given
Init ==
    /\ env = [CLIENT_ID |-> TRUE, REDIRECT_URI |-> TRUE, SCOPES |-> TRUE]
    /\ InitStorage
    /\ InitPage
    /\ InitDashboard

Next ==
    \/ \E r \in Req : StartAlone(r)
    \/ \E r \in Req, s \in Statuses : ResourceResponse(r, s, Absent)
    \/ \E r \in Req : BackoffElapsed(r)
    \/ \E r \in Req : RefreshFailed(r)
    \/ \E r \in Req, data \in Responses : RefreshAnswered(r, data)
    \/ Logout
    \/ \E d \in TickChoices : Tick(d)
    \/ StartLogin
    \/ \E c \in Codes, s \in 1 .. (MaxLogins + 1) : OpenCallback(c, s)
    \/ ExchangeFailed
    \/ \E data \in Responses : ExchangeAnswered(data)
    \/ RetryLogin
    \/ OpenHome

\* one call at a time, its responses without a retry-after header
Spec == Init /\ [][Next]_vars

\* calls that overlap
NextOverlap ==
    \/ Next
    \/ \E r \in Req : StartOverlapping(r)

SpecOverlap == Init /\ [][NextOverlap]_vars

\* ---- the calls of one Dashboard, overlapping or not
\* the Dashboard is mounted with the stored record, inside the safety
\* window or not
InitCalls ==
    /\ env = [CLIENT_ID |-> TRUE, REDIRECT_URI |-> TRUE, SCOPES |-> TRUE]
    /\ \E e \in ExpiresInChoices : localStorage = Some(Stored(e))
    /\ issued = 1
    /\ sessionStorage = [state |-> Absent, verifier |-> Absent]
    /\ logins = 0
    /\ InitPage
    /\ InitDashboard

NextCalls ==
    \/ \E r \in Req : StartAlone(r)
    \/ \E r \in Req : StartOverlapping(r)
    \/ \E r \in Req, s \in Statuses : ResourceResponse(r, s, Absent)
    \/ \E r \in Req : BackoffElapsed(r)
    \/ \E r \in Req : RefreshFailed(r)
    \/ \E r \in Req, data \in Responses : RefreshAnswered(r, data)
    \/ \E d \in TickChoices : Tick(d)

SpecCalls == InitCalls /\ [][NextCalls]_vars

\* ---- the calls of one Dashboard, one at a time, whose 429 responses carry
\* any retry-after header
NextRetryAfter ==
    \/ \E r \in Req : StartAlone(r)
    \/ \E r \in Req, s \in Statuses, h \in RetryAfterChoices :
            ResourceResponse(r, s, h)
    \/ \E r \in Req : BackoffElapsed(r)
    \/ \E r \in Req : RefreshFailed(r)
    \/ \E r \in Req, data \in Responses : RefreshAnswered(r, data)
    \/ \E d \in TickChoices : Tick(d)

SpecRetryAfter == InitCalls /\ [][NextRetryAfter]_vars

\* the scope list of the authorize URL: the setting, or the default list
\* when the setting is not given
SCOPES == IF env.SCOPES THEN 2 ELSE 1

\* a deployment in which any of the three settings may be missing
InitEnv ==
    /\ env \in [CLIENT_ID : BOOLEAN, REDIRECT_URI : BOOLEAN, SCOPES : BOOLEAN]
    /\ InitStorage
    /\ InitPage
    /\ InitDashboard

SpecEnv == InitEnv /\ [][Next]_vars

\* ------------------------------------------------- the Dashboard's specs
\* a signed-in session whose token is fresh: the Dashboard is mounted
InitSignedIn ==
    /\ env = [CLIENT_ID |-> TRUE, REDIRECT_URI |-> TRUE, SCOPES |-> TRUE]
    /\ localStorage = Some(Stored(120))
    /\ issued = 1
    /\ sessionStorage = [state |-> Absent, verifier |-> Absent]
    /\ logins = 0
    /\ InitPage

\* the fetches of the Dashboard from its mounting on
NextFetch ==
    \/ StartFetchPlaylists
    \/ StartFetchTracks
    \/ \E i \in 1 .. Len(playlists) : SelectPlaylist(i)
    \/ \E page \in Pages(fetch) : PageAnswered(page)
    \/ PageFailed
    \/ ClearBanner


\* the profile and the playlist of a Dashboard that has loaded them
Profile == [id |-> 1, display_name |-> 1]

LoadedPlaylist ==
    toSummary(CHOOSE item \in PlaylistChoices : item.id = 1)

\* a TrackRow but for its originalIndex
TrackRow(uri, name, mainArtist, album, addedAt, popularity, durationMs) ==
    [id |-> << uri >>, uri |-> uri, name |-> name,
     artists |-> << mainArtist >>, mainArtist |-> mainArtist,
     album |-> album, popularity |-> popularity, durationMs |-> durationMs,
     addedAt |-> addedAt, originalIndex |-> 0]

\* the rows a loaded playlist is made of: names 1 and 2 are "A" and "a",
\* 3 is "B", 5 is "C"
RowChoices ==
    { TrackRow(1, 3, 1, 1, Some(2), Some(50), 200),
      TrackRow(2, 1, 3, 1, Some(1), Some(50), 100),
      TrackRow(3, 5, 1, 3, Absent, Some(90), 100),
      TrackRow(4, 2, 2, 2, Some(1), Absent, 100),
      TrackRow(5, 1, 1, 1, Some(2), Some(0), 200) }

\* what setTracks(collected) may have stored: row i has originalIndex i - 1
Indexed(rows) ==
    [i \in 1 .. Len(rows) |-> [rows[i] EXCEPT !.originalIndex = i - 1]]

\* the playlists loaded here hold each of their tracks once, in the order
\* of their uris or in the reverse of it
TrackLists ==
    { Indexed(rows) :
        rows \in { s \in UNION { [1 .. n -> RowChoices] : n \in 0 .. MaxRows } :
                     \/ \A i, j \in 1 .. Len(s) : i < j => s[i].uri < s[j].uri
                     \/ \A i, j \in 1 .. Len(s) : i < j => s[i].uri > s[j].uri } }

\* a Dashboard that has loaded the tracks of its playlist
Loaded(tr, rules, usr, sel, name) ==
    /\ user = usr
    /\ playlists = << LoadedPlaylist >>
    /\ selectedPlaylist = sel
    /\ tracks = tr
    /\ sortRules = rules
    /\ sortedTracks = sortedTracksOf(tr, rules)
    /\ banner = Absent
    /\ isLoadingPlaylists = FALSE
    /\ isLoadingTracks = FALSE
    /\ newPlaylistName = name
    /\ isCreatingPlaylist = FALSE
    /\ fetch = IdleFetch
    /\ create = IdleCreate

\* the edits of the sort rules of a loaded playlist
InitSort ==
    /\ InitSignedIn
    /\ \E tr \in TrackLists :
            Loaded(tr, defaultSortRules, Some(Profile), Some(LoadedPlaylist),
                   sortifyName(LoadedPlaylist))

NextSort ==
    \/ ToggleSortField
    \/ \E i \in 1 .. Len(sortRules) :
            \E patch \in Patches(sortRules, i) : UpdateSortRule(i, patch)
    \/ \E i \in 1 .. Len(sortRules) : RemoveSortRule(i)

SpecSort == InitSort /\ [][NextSort]_vars

\* the edits of the sort rules of a Dashboard before a playlist is selected
InitRules ==
    /\ InitSignedIn
    /\ InitDashboard

SpecRules == InitRules /\ [][NextSort]_vars

\* a playlist of n rows, loaded
LoadedTracks(n) ==
    [i \in 1 .. n |->
        [TrackRow(i, 1 + (i % 5), 1 + (i % 2), 1, Some(i % 4),
                  IF i % 3 = 0 THEN Absent ELSE Some(10 * (i % 3)),
                  100 * (1 + (i % 2)))
            EXCEPT !.originalIndex = i - 1]]

\* the Dashboard right after its mounting, or with a playlist loaded
InitFetch ==
    /\ InitSignedIn
    /\ \/ InitDashboard
       \/ Loaded(LoadedTracks(Len(defaultSortRules)), defaultSortRules,
                 Some(Profile), Some(LoadedPlaylist),
                 sortifyName(LoadedPlaylist))

SpecFetch == InitFetch /\ [][NextFetch]_vars

\* ---- the writing of the sorted playlist
\* how many tracks the playlists written here hold
SizeChoices == { 1, 100, 101, 250 }

\* a loaded playlist whose only track has an empty uri
Unplayable == [i \in 1 .. 1 |-> [LoadedTracks(1)[i] EXCEPT !.uri = 0]]

CreateTracks == { LoadedTracks(n) : n \in SizeChoices } \cup { Unplayable }

\* the Dashboard with a playlist loaded, its profile loaded or not
\* (fetchProfile may have failed), and any name in the form
InitCreate ==
    /\ InitSignedIn
    /\ \E tr \in CreateTracks, usr \in { Absent, Some(Profile) },
          name \in NameChoices \cup { sortifyName(LoadedPlaylist) } :
            Loaded(tr, defaultSortRules, usr, Some(LoadedPlaylist), name)

NextCreate ==
    \/ \E name \in NameChoices : SetNewPlaylistName(name)
    \/ HandleCreatePlaylist
    \/ \E success \in BOOLEAN : CreateAnswered(success)
    \/ \E success \in BOOLEAN : BatchAnswered(success)
    \/ \E page \in Pages(fetch) : PageAnswered(page)
    \/ PageFailed
    \/ ClearBanner

SpecCreate == InitCreate /\ [][NextCreate]_vars

\* ---- the selection of another playlist
\* handleSelectPlaylist(playlists[i]) for a playlist that is not the
\* selected one, and the effect on selectedPlaylist that follows its
\* render: fetchPlaylistTracks(playlists[i]) up to its first client.get
HandleSelectPlaylist(i) ==
    /\ cur # 0
    /\ i \in 1 .. Len(playlists)
    /\ selectedPlaylist # Some(playlists[i])
    /\ fetch.pc # "waiting"
    /\ fetch.total < MaxPages
    /\ ~Creating(create)
    /\ selectedPlaylist' = Some(playlists[i])
    /\ newPlaylistName' = sortifyName(playlists[i])
    /\ fetch' = startFetch("tracks", playlists[i].id, Some(playlists[i]))
    /\ isLoadingTracks' = TRUE
    /\ UNCHANGED << pipeVars, user, playlists, isLoadingPlaylists, tracks,
                    sortRules, sortedTracks, banner, isCreatingPlaylist,
                    create >>

\* the two playlists of the account, as fetchPlaylists has stored them
TwoPlaylists ==
    [i \in 1 .. 2 |-> toSummary(CHOOSE item \in PlaylistChoices : item.id = i)]

\* the rows fetchPlaylistTracks(playlist) has stored for a playlist of two
\* tracks, the second a local file
FetchedRows(playlist) ==
    collectRows([i \in 1 .. 2 |->
                    CHOOSE item \in ItemChoices :
                        ~IsAbsent(item.track) /\ Val(item.track).uri = i],
                playlist.id, << >>, 0).collected

\* the Dashboard with its profile, its playlists and the tracks of the first
\* playlist loaded
InitSelect ==
    /\ InitSignedIn
    /\ user = Some(Profile)
    /\ playlists = TwoPlaylists
    /\ selectedPlaylist = Some(TwoPlaylists[1])
    /\ tracks = FetchedRows(TwoPlaylists[1])
    /\ sortRules = defaultSortRules
    /\ sortedTracks = sortedTracksOf(tracks, sortRules)
    /\ banner = Absent
    /\ isLoadingPlaylists = FALSE
    /\ isLoadingTracks = FALSE
    /\ newPlaylistName = sortifyName(TwoPlaylists[1])
    /\ isCreatingPlaylist = FALSE
    /\ fetch = IdleFetch
    /\ create = IdleCreate

NextSelect ==
    \/ \E i \in 1 .. Len(playlists) : HandleSelectPlaylist(i)
    \/ HandleCreatePlaylist
    \/ \E success \in BOOLEAN : CreateAnswered(success)
    \/ \E success \in BOOLEAN : BatchAnswered(success)
    \/ \E page \in Pages(fetch) : PageAnswered(page)
    \/ PageFailed
    \/ ClearBanner

SpecSelect == InitSelect /\ [][NextSelect]_vars

\* response.ok of get, post and put: a status outside 200..299 is thrown as
\* an API error
ok(status) == status >= 200 /\ status <= 299

\* ================================================================ claims

\* C1: a call whose first send is answered with 401 and whose resend after
\* the forced refresh is answered with 401 again returns that second 401 as
\* its result (get, post and put throw it as an API error) after exactly two
\* resource requests: no third one is sent.
C1_SecondUnauthorizedIsFinal ==
    \A r \in Req :
        LET q == req[r]
        IN  (Len(q.resp) >= 2 /\ q.resp[1] = 401 /\ q.resp[2] = 401)
                => /\ q.pc = "done"
                   /\ q.status = 401
                   /\ ~ok(q.status)
                   /\ q.sent = 2
                   /\ Len(q.resp) = 2
                   /\ q.forced = 1

C1_Witness ==
    \E r \in Req : req[r].pc = "done" /\ req[r].resp = << 401, 401 >>

\* C2: whenever a call has received a 401, it has started exactly one forced
\* token refresh, also when 429 responses were retried before that 401.
C2_First401ForcesRefresh ==
    \A r \in Req :
        (\E i \in 1 .. Len(req[r].resp) : req[r].resp[i] = 401)
            => req[r].forced = 1

\* C3: the retries on 429 are bounded by a fixed number of sends: a call
\* whose sends were all answered with 429 and that has sent MaxSends resource
\* requests has given up; it is not waiting to resend once more.
C3_RateLimitRetriesBounded ==
    \A r \in Req :
        (/\ req[r].pc = "backoff"
         /\ \A i \in 1 .. Len(req[r].resp) : req[r].resp[i] = 429)
            => req[r].sent < MaxSends

\* C4: a step that enters authorizedFetch (a new call, the resend after a
\* 429 or after a forced refresh) sends the resource request with the
\* client's current access token when now + 60000 < expiresAt, and otherwise
\* sends only the token request; the answer to that one token request is
\* followed at once by the resource request carrying the refreshed access
\* token, not the stale one.
C4_Step(r) ==
    LET q == req[r]
        p == req'[r]
        toks == clients'[p.client]
        before == IF ev'.op = "request" THEN 0 ELSE q.sent
        enters == \/ ev'.op \in {"request", "backoff"}
                  \/ ev'.op = "refresh" /\ ev'.ok /\ q.pc = "forced"
                        /\ p.pc # "failed"
    IN  /\ (ev'.r = r /\ enters) =>
            /\ p.pc \in {"refreshing", "fetching"}
            /\ (p.pc = "refreshing") <=> (now' + 60000 >= toks.expiresAt)
            /\ p.pc = "fetching" =>
                  p.hdr = toks.accessToken /\ p.sent = before + 1
            /\ p.pc = "refreshing" => p.prev = toks /\ p.sent = before
        /\ (ev'.r = r /\ ev'.op = "refresh" /\ ev'.ok /\ q.pc = "refreshing"
                /\ p.pc # "failed") =>
            /\ p.pc = "fetching"
            /\ p.hdr = ev'.data.access_token
            /\ p.hdr # q.prev.accessToken
            /\ p.hdr = toks.accessToken
            /\ p.sent = q.sent + 1

C4_SafetyWindow == [][\A r \in Req : C4_Step(r)]_vars

C4_Witness ==
    \E r \in Req :
        /\ ev.op = "refresh" /\ ev.ok /\ ev.r = r
        /\ req[r].pc = "fetching"
        /\ req[r].attempt = 0
        /\ req[r].resp = << >>
        /\ req[r].hdr = ev.data.access_token

\* C5: when a successful refresh response has no refresh_token, the record
\* stored and returned has the previous record's refreshToken, and the
\* response's access token, expiry (now + expires_in * 1000) and scope.
C5_Step ==
    (/\ ev'.op = "refresh" /\ ev'.ok
     /\ IsAbsent(ev'.data.refresh_token)
     /\ req[ev'.r].prev.refreshToken # 0) =>
        LET q == req[ev'.r]
            rec == [accessToken |-> ev'.data.access_token,
                    refreshToken |-> q.prev.refreshToken,
                    expiresAt |-> now + ev'.data.expires_in * 1000,
                    scope |-> ev'.data.scope]
        IN  /\ localStorage' = Some(rec)
            /\ clients'[q.client] = rec
            /\ tokenSet' = Some(rec)

C5_RefreshTokenCarriedForward == [][C5_Step]_vars

C5_Witness ==
    /\ ev.op = "refresh" /\ ev.ok
    /\ IsAbsent(ev.data.refresh_token)
    /\ ~IsAbsent(localStorage)
    /\ Val(localStorage).accessToken = ev.data.access_token
    /\ Val(localStorage).refreshToken # 0

\* the response and the previous record give no non-empty refresh token
C6_NoneSupplied(data, previousRefreshToken) ==
    /\ IsAbsent(data.refresh_token) \/ Val(data.refresh_token) = 0
    /\ IsAbsent(previousRefreshToken) \/ Val(previousRefreshToken) = 0

\* C6: every record a step writes to localStorage has a non-empty
\* refreshToken; when neither the token endpoint's response nor the previous
\* record supplies one, the operation fails and localStorage is unchanged.
C6_Step ==
    /\ (localStorage' # localStorage /\ ~IsAbsent(localStorage'))
            => Val(localStorage').refreshToken # 0
    /\ (ev'.op = "exchange" /\ ev'.ok
            /\ C6_NoneSupplied(ev'.data, Absent))
            => /\ localStorage' = localStorage
               /\ auth'.pc = "error"
               /\ IsAbsent(tokenSet') = IsAbsent(tokenSet)
    /\ (ev'.op = "refresh" /\ ev'.ok
            /\ C6_NoneSupplied(ev'.data, Some(req[ev'.r].prev.refreshToken)))
            => /\ localStorage' = localStorage
               /\ req'[ev'.r].pc = "failed"

C6_StoredRefreshTokenNonEmpty == [][C6_Step]_vars

C6_Witness ==
    /\ ev.op = "exchange" /\ ev.ok
    /\ C6_NoneSupplied(ev.data, Absent)
    /\ auth.pc = "error" /\ auth.err = "MissingRefreshToken"

\* C7: when the token endpoint answers a refresh with a non-success status,
\* the token record, the state and the verifier are removed from storage, so
\* that loadStoredTokens returns absent, and the call fails with the
\* session-expired error without sending or resending its resource request;
\* a call that has failed sends nothing more.
C7_Step ==
    /\ (ev'.op = "refresh" /\ ~ev'.ok) =>
            /\ IsAbsent(loadStoredTokens(localStorage'))
            /\ IsAbsent(sessionStorage'.state)
            /\ IsAbsent(sessionStorage'.verifier)
            /\ req'[ev'.r].pc = "failed"
            /\ req'[ev'.r].err = "SessionExpired"
            /\ req'[ev'.r].sent = req[ev'.r].sent
    /\ \A r \in Req :
            (req[r].pc = "failed" /\ Active(req'[r]))
                => ev'.op = "request" /\ ev'.r = r

C7_RefreshFailureClearsSession == [][C7_Step]_vars

C7_Witness ==
    /\ ev.op = "refresh" /\ ~ev.ok
    /\ req[ev.r].pc = "failed"
    /\ req[ev.r].resp = << 401 >>
    /\ IsAbsent(localStorage)

\* C8: after a token refresh has failed, App's tokenSet is absent, as the
\* cleared storage is, so that the login screen is shown.
C8_RefreshFailureLogsOut ==
    (ev.op = "refresh" /\ ~ev.ok) => IsAbsent(tokenSet)

\* C9: completeAuthorization fails with the state-mismatch error when no
\* state is stored or the returned state differs from it, and with the
\* missing-verifier error when the state matches and no verifier is stored;
\* either way it sends no token request and the stored record is unchanged.
C9_Step ==
    (ev'.op = "callback") =>
        LET expected == sessionStorage.state
            mismatch == IsAbsent(expected) \/ ev'.state # Val(expected)
        IN  /\ mismatch =>
                /\ auth'.pc = "error" /\ auth'.err = "StateMismatch"
                /\ localStorage' = localStorage /\ issued' = issued
            /\ (~mismatch /\ IsAbsent(sessionStorage.verifier)) =>
                /\ auth'.pc = "error" /\ auth'.err = "MissingVerifier"
                /\ localStorage' = localStorage /\ issued' = issued
            /\ (~mismatch /\ ~IsAbsent(sessionStorage.verifier)) =>
                auth'.pc = "exchanging"

C9_AuthorizationChecks == [][C9_Step]_vars

C9_Witness ==
    /\ ev.op = "callback"
    /\ auth.pc = "error" /\ auth.err = "MissingVerifier"
    /\ ~IsAbsent(sessionStorage.state)

\* C10: a successful code exchange stores a record with expiresAt = now +
\* expires_in * 1000 and removes the state and the verifier; a later
\* completeAuthorization with a state whose exchange has succeeded fails
\* with state mismatch and sends no token request.
C10_Step ==
    /\ (ev'.op = "exchange" /\ ev'.ok /\ auth'.pc = "done") =>
            /\ ~IsAbsent(localStorage')
            /\ Val(localStorage').expiresAt = now + ev'.data.expires_in * 1000
            /\ Val(localStorage').accessToken = ev'.data.access_token
            /\ tokenSet' = localStorage'
            /\ IsAbsent(sessionStorage'.state)
            /\ IsAbsent(sessionStorage'.verifier)
    /\ (ev'.op = "callback" /\ ev'.state \in consumed) =>
            /\ auth'.pc = "error" /\ auth'.err = "StateMismatch"
            /\ localStorage' = localStorage /\ issued' = issued

C10_PendingPairUsedOnce == [][C10_Step]_vars

C10_Witness ==
    /\ ev.op = "callback"
    /\ ev.state \in consumed
    /\ auth.pc = "error" /\ auth.err = "StateMismatch"

\* C11: after completeAuthorization has failed with the state-mismatch
\* error, the missing-verifier error or a non-success answer of the token
\* endpoint, neither the state nor the verifier is in sessionStorage.
C11_Step ==
    (/\ ev'.op \in {"callback", "exchange"}
     /\ auth'.pc = "error"
     /\ auth'.err \in {"StateMismatch", "MissingVerifier",
                       "TokenExchangeFailed"}) =>
        /\ IsAbsent(sessionStorage'.state)
        /\ IsAbsent(sessionStorage'.verifier)

C11_FailedLoginClearsPending == [][C11_Step]_vars

\* the steps of startSpotifyLogin, completeAuthorization and
\* refreshAccessToken when they fail on the configuration: no token request,
\* no navigation, and nothing stored by them
C12_LoginFails ==
    (ev'.op \in {"login", "retry"}) =>
        /\ ~ev'.ok
        /\ logins' = logins
        /\ route' = route
        /\ issued' = issued
        /\ sessionStorage' = IF ev'.op = "login" THEN sessionStorage
                             ELSE clearSession(sessionStorage)

C12_CallbackFails ==
    (ev'.op = "callback") =>
        /\ auth'.pc = "error" /\ auth'.err = "MissingEnv"
        /\ issued' = issued
        /\ localStorage' = localStorage
        /\ sessionStorage' = sessionStorage

C12_RefreshFails ==
    /\ ev'.op # "refresh"
    /\ \A r \in Req : req'[r].pc \notin {"refreshing", "forced"}
    /\ (ev'.op = "request" /\ ~isFresh(now, clients[cur])) =>
            /\ req'[ev'.r].pc = "failed" /\ req'[ev'.r].err = "MissingEnv"
            /\ req'[ev'.r].sent = 0
    /\ (/\ ev'.op = "response"
        /\ req[ev'.r].resp = << >>
        /\ req'[ev'.r].resp = << 401 >>) =>
            /\ req'[ev'.r].pc = "failed" /\ req'[ev'.r].err = "MissingEnv"
            /\ req'[ev'.r].sent = 1
    /\ (ev'.op \in {"request", "response", "backoff"}) =>
            /\ issued' = issued
            /\ localStorage' = localStorage
            /\ sessionStorage' = sessionStorage

\* C12 as stated: when the client identifier, the redirect URI or the scope
\* list is missing from the configuration, startSpotifyLogin,
\* completeAuthorization and refreshAccessToken all fail with the
\* configuration error before any token request and before anything is
\* stored.
C12_Original ==
    (~env.CLIENT_ID \/ ~env.REDIRECT_URI \/ ~env.SCOPES) =>
        C12_LoginFails /\ C12_CallbackFails /\ C12_RefreshFails

C12_AnyMissingSettingFails == [][C12_Original]_vars

\* C12, amended: startSpotifyLogin and completeAuthorization fail so when
\* the client identifier or the redirect URI is missing, refreshAccessToken
\* when the client identifier is missing; a missing scope list is replaced
\* by the default list and fails nothing, and a login of a deployment with
\* both the client identifier and the redirect URI stores its pair.
C12_Step ==
    /\ ~(env.CLIENT_ID /\ env.REDIRECT_URI) =>
            C12_LoginFails /\ C12_CallbackFails
    /\ ~env.CLIENT_ID => C12_RefreshFails
    /\ (env.CLIENT_ID /\ env.REDIRECT_URI /\ ev'.op \in {"login", "retry"}) =>
            /\ ev'.ok
            /\ ~IsAbsent(sessionStorage'.state)
            /\ ~IsAbsent(sessionStorage'.verifier)

C12_MissingSettingFails == [][C12_Step]_vars

C12_Witness ==
    /\ ~env.CLIENT_ID
    /\ env.REDIRECT_URI
    /\ ev.op = "response"
    /\ req[ev.r].resp = << 401 >>
    /\ req[ev.r].pc = "failed" /\ req[ev.r].err = "MissingEnv"

\* the rows or summaries the items of a page are projected to, the first of
\* them at position n of the collection
C13_Projected(f, items, n) ==
    IF f.kind = "playlists"
    THEN [i \in 1 .. Len(items) |-> toSummary(items[i])]
    ELSE LET kept == SelectSeq(items, LAMBDA item : ~skipped(item))
         IN  [i \in 1 .. Len(kept) |-> toRow(kept[i], f.playlist, n + i - 1)]

\* C13: fetchPlaylists and fetchPlaylistTracks append the projected items of
\* each page they receive, in order; after a page with a next link they
\* request the page that link names and nothing else, after the first page
\* without one they request nothing more and publish what they have
\* collected; at most one page request is outstanding.
C13_Step ==
    /\ (/\ fetch.pc = "waiting"
        /\ fetch'.answered = fetch.answered + 1
        /\ fetch'.pc # "failed") =>
            LET page == Val(fetch'.response)
            IN  /\ fetch'.collected = fetch.collected \o
                        C13_Projected(fetch, page.items, Len(fetch.collected))
                /\ IsAbsent(page.next) =>
                        /\ fetch'.pc = "done"
                        /\ fetch'.sent = fetch.sent
                        /\ IsAbsent(fetch'.request)
                        /\ fetch.kind = "playlists" =>
                                playlists' = fetch'.collected
                        /\ fetch.kind = "tracks" => tracks' = fetch'.collected
                /\ ~IsAbsent(page.next) =>
                        /\ fetch'.pc = "waiting"
                        /\ fetch'.sent = fetch.sent + 1
                        /\ fetch'.request = page.next
    /\ fetch'.sent - fetch'.answered \in {0, 1}
    /\ fetch'.pc \in {"done", "failed"} => fetch'.sent = fetch'.answered

C13_PagesFollowNextLinks == [][C13_Step]_vars

\* C14: the row at position i of what one fetchPlaylistTracks has collected
\* has originalIndex i (from 0), over every page boundary; an item whose
\* track is null or has no uri adds no row and does not advance the index;
\* the rows of tracks are numbered so too.
C14_Numbered(rows) ==
    \A i \in 1 .. Len(rows) : rows[i].originalIndex = i - 1 /\ rows[i].uri # 0

C14_Step ==
    /\ fetch'.kind = "tracks" =>
            /\ C14_Numbered(fetch'.collected)
            /\ fetch'.index = Len(fetch'.collected)
    /\ C14_Numbered(tracks')
    /\ (/\ fetch.kind = "tracks"
        /\ fetch.pc = "waiting"
        /\ fetch'.answered = fetch.answered + 1
        /\ fetch'.pc # "failed") =>
            LET items == Val(fetch'.response).items
            IN  Len(fetch'.collected) = Len(fetch.collected) +
                    Cardinality({ i \in 1 .. Len(items) : ~skipped(items[i]) })

C14_OriginalIndexIsPosition == [][C14_Step]_vars

C14_Witness ==
    /\ fetch.kind = "tracks"
    /\ fetch.pc = "done"
    /\ fetch.answered = 2
    /\ Len(tracks) = 2
    /\ LET items == Val(fetch.response).items
       IN  /\ Len(items) = 2
           /\ skipped(items[1])
           /\ ~skipped(items[2])
    /\ tracks[2].originalIndex = 1

\* the rows of the loaded playlist, and the comparator of the current rules
C15_Rows == { tracks[i] : i \in 1 .. Len(tracks) }

C15_Before(a, b) == compareRows(sortRules, a, b) < 0

\* the positions of the rules on which a and b differ
C15_Differing(a, b) ==
    { k \in 1 .. Len(sortRules) : fieldComparison(sortRules[k].field, a, b) # 0 }

\* a comes before b by the first rule on which they differ
C15_OrderedByFirstDifference(a, b) ==
    LET k == CHOOSE x \in C15_Differing(a, b) :
                \A y \in C15_Differing(a, b) : x <= y
        c == fieldComparison(sortRules[k].field, a, b)
    IN  IF sortRules[k].direction = "asc" THEN c < 0 ELSE c > 0

C16_Tie(a, b) ==
    \A k \in 1 .. Len(sortRules) :
        fieldComparison(sortRules[k].field, a, b) = 0

\* C16: two rows that tie on every rule stand in the output in ascending
\* originalIndex, whatever the directions of the rules; a row without a
\* popularity ties on popularity with a row of popularity 0.
C16_TiesKeepOriginalOrder ==
    /\ \A i, j \in 1 .. Len(sortedTracks) :
            (i < j /\ C16_Tie(sortedTracks[i], sortedTracks[j])) =>
                sortedTracks[i].originalIndex < sortedTracks[j].originalIndex
    /\ \A a, b \in C15_Rows :
            (IsAbsent(a.popularity) /\ b.popularity = Some(0)) =>
                /\ fieldComparison("popularity", a, b) = 0
                /\ fieldComparison("popularity", b, a) = 0

C16_Witness ==
    /\ \E k \in 1 .. Len(sortRules) : sortRules[k].direction = "desc"
    /\ \E i, j \in 1 .. Len(sortedTracks) :
            /\ i < j
            /\ C16_Tie(sortedTracks[i], sortedTracks[j])
            /\ IsAbsent(sortedTracks[i].popularity)
            /\ sortedTracks[j].popularity = Some(0)
    /\ \E k \in 1 .. Len(sortRules) : sortRules[k].field = "popularity"
    /\ sortedTracks # tracks

\* C17: the memo is a function of the tracks and the rules, and the sort of
\* its output under the same rules is that output again.
C17_SortIsIdempotent ==
    /\ sortedTracks = sortedTracksOf(tracks, sortRules)
    /\ sortedTracksOf(sortedTracks, sortRules) = sortedTracks

C17_Witness ==
    /\ sortRules # << >>
    /\ sortRules # defaultSortRules
    /\ sortedTracks # tracks
    /\ \E i, j \in 1 .. Len(sortedTracks) :
            i < j /\ C16_Tie(sortedTracks[i], sortedTracks[j])

\* C18: with no rule the output is the input, the rows in ascending
\* originalIndex; with no row it is empty; it always holds the rows of the
\* input, each once; and a sort leaves the input sequence as it was.
C18_Step ==
    /\ tracks' = tracks
    /\ (sortRules' = << >>) =>
            /\ sortedTracks' = tracks'
            /\ \A i \in 1 .. Len(sortedTracks') :
                    sortedTracks'[i].originalIndex = i - 1
    /\ (tracks' = << >>) => sortedTracks' = << >>
    /\ Len(sortedTracks') = Len(tracks')
    /\ \A i \in 1 .. Len(tracks') :
            \E j \in 1 .. Len(sortedTracks') : sortedTracks'[j] = tracks'[i]

C18_OutputIsPermutation == [][C18_Step]_vars

C18_Witness ==
    /\ sortRules = << >>
    /\ Len(tracks) >= 2
    /\ sortedTracks = tracks
    /\ tracks[1].addedAt # tracks[2].addedAt

\* the batches one after the other
RECURSIVE C19_Concat(_)
C19_Concat(chunks) ==
    IF chunks = << >> THEN << >>
    ELSE Head(chunks) \o C19_Concat(Tail(chunks))

C19_Sizes(chunks) == [j \in 1 .. Len(chunks) |-> Len(chunks[j])]

\* C19: the n uris of the sorted tracks are written in ceil(n / 100)
\* batches, each of at most 100 uris and all but the last of exactly 100,
\* whose concatenation is the uri sequence; the request in flight carries
\* the batch the cursor is on while every request before it has been
\* answered, and the cursor moves on by one with the answer to its batch;
\* 250 uris make batches of 100, 100 and 50.
C19_Step ==
    LET c == create'
        n == Len(c.uris)
    IN  /\ (create.pc # "creating" /\ c.pc = "creating") =>
                /\ c.uris = urisOf(sortedTracks)
                /\ c.sent = 1 /\ c.answered = 0 /\ c.cursor = 0
        /\ (c.pc \in {"adding", "reloading", "done"}) =>
                /\ Len(c.chunks) = (n + batchSize - 1) \div batchSize
                /\ \A j \in 1 .. Len(c.chunks) :
                        /\ Len(c.chunks[j]) <= batchSize
                        /\ (j < Len(c.chunks)) => Len(c.chunks[j]) = batchSize
                /\ C19_Concat(c.chunks) = c.uris
                /\ (n = 250) => C19_Sizes(c.chunks) = << 100, 100, 50 >>
        /\ (c.pc = "adding") =>
                /\ c.cursor \in 1 .. Len(c.chunks)
                /\ c.body = c.chunks[c.cursor]
                /\ c.sent = c.cursor + 1
                /\ c.answered = c.cursor
        /\ (c.pc = "adding" /\ c.cursor # create.cursor) =>
                /\ create.pc \in {"creating", "adding"}
                /\ c.cursor = create.cursor + 1
                /\ c.answered = create.answered + 1
        /\ (c.pc \in {"reloading", "done"}) =>
                /\ c.cursor = Len(c.chunks)
                /\ c.sent = Len(c.chunks) + 1
                /\ c.answered = c.sent

C19_BatchesOfAHundredInOrder == [][C19_Step]_vars

C19_Witness ==
    /\ create.pc = "done"
    /\ Len(create.uris) = 250
    /\ C19_Sizes(create.chunks) = << 100, 100, 50 >>
    /\ create.sent = 4 /\ create.answered = 4

\* the submitted form has no uri to write, or a blank name
C20_Invalid ==
    \/ Len(urisOf(sortedTracks)) = 0
    \/ trim(newPlaylistName) = << >>

\* C20: a submit with no valid track uri, or with a name that is blank
\* after trimming, shows a validation error and sends no request.
C20_Step ==
    (HandleCreatePlaylist /\ C20_Invalid) =>
        /\ create'.err \in {"EmptyTrackSet", "EmptyName"}
        /\ banner' = Some(Banner("error", create'.err, 0))
        /\ create'.sent = 0 /\ create'.pc = "returned"
        /\ ~isCreatingPlaylist'
        /\ fetch' = fetch

C20_ValidationBeforeNetwork == [][C20_Step]_vars

\* C21: when the answer to batch j is a failure, the error is shown, the
\* handler is over, no request follows (no rollback, no later batch), and
\* what the provider has written is the first 100 * (j - 1) uris of the
\* sorted sequence; it stays so until the form is submitted again.
C21_Step ==
    /\ (create.pc = "adding" /\ create'.pc = "failed") =>
            /\ banner' = Some(Banner("error", "apiError", 0))
            /\ ~isCreatingPlaylist'
            /\ create'.sent = create.sent
            /\ create'.cursor = create.cursor
            /\ create'.written
                  = SubSeq(create.uris, 1, batchSize * (create.cursor - 1))
            /\ create'.uris = urisOf(sortedTracks)
            /\ fetch' = fetch
    /\ (create.pc = "failed") =>
            \/ create'.pc \in {"creating", "returned"}
            \/ create' = create

C21_FailedBatchLeavesPrefix == [][C21_Step]_vars

C21_Witness ==
    /\ create.pc = "failed"
    /\ Len(create.uris) = 250
    /\ create.cursor = 3
    /\ Len(create.written) = 200
    /\ create.sent = 4

\* C22: a refresh of call r that succeeds puts the new record into the
\* call's client, calls the observer once, with that record, which becomes
\* App's tokenSet, and no resource request is in flight during the refresh:
\* the request sent after it carries the new access token; a logout empties
\* the stored record and the pending pair and calls the observer once, with
\* an absent record.
C22_Step ==
    /\ (ev'.op = "refresh" /\ ev'.ok /\ req'[ev'.r].err = "") =>
            LET q == req[ev'.r]
                after == req'[ev'.r]
                refreshed == buildTokenSet(ev'.data,
                                           Some(q.prev.refreshToken), now)
            IN  /\ clients'[q.client] = refreshed
                /\ ev'.observer = << Some(refreshed) >>
                /\ tokenSet' = Some(refreshed)
                /\ q.hdr = 0
                /\ after.sent \in {q.sent, q.sent + 1}
                /\ (after.sent = q.sent + 1) =>
                        after.hdr = refreshed.accessToken
                /\ (after.sent = q.sent) => after.pc = "refreshing"
    /\ (ev'.op = "logout") =>
            /\ localStorage' = Absent
            /\ sessionStorage' = [state |-> Absent, verifier |-> Absent]
            /\ ev'.observer = << Absent >>
            /\ tokenSet' = Absent
    /\ (ev'.op \notin {"refresh", "logout"}) => ev'.observer = << >>

C22_RefreshAndLogoutNotifyOnce == [][C22_Step]_vars

C22_Witness ==
    /\ ev.op = "refresh" /\ ev.ok
    /\ ev.observer = << tokenSet >>
    /\ req[ev.r].pc = "fetching"
    /\ req[ev.r].forced = 1
    /\ req[ev.r].attempt = 1
    /\ req[ev.r].sent = 2

\* the calls whose token request is in flight
C23_Refreshing == { r \in Req : req[r].pc \in {"refreshing", "forced"} }

\* C23: at most one token refresh is in flight at any moment, and no two
\* refreshes in flight submit the same refresh token.
C23_AtMostOneRefreshInFlight ==
    /\ Cardinality(C23_Refreshing) <= 1
    /\ \A r1, r2 \in C23_Refreshing :
            (r1 # r2) => req[r1].prev.refreshToken # req[r2].prev.refreshToken

\* C24: the timer set on a 429 response waits retry-after * 1000 ms when
\* the header is a number of seconds, and 2000 ms when the header is absent
\* or is no number.
C24_Step ==
    (ev'.op = "response" /\ req'[ev'.r].pc = "backoff") =>
        LET h == ev'.header
        IN  req'[ev'.r].wait =
                IF ~IsAbsent(h) /\ Val(h).numeric
                THEN Val(h).seconds * 1000 ELSE 2000

C24_WaitsRetryAfterOrTwoSeconds == [][C24_Step]_vars

\* the positions at which two rule lists of one length differ
C25_Changed(before, after) ==
    { i \in 1 .. Len(before) : after[i] # before[i] }

\* C25: after every edit no two rules have the same field, so there are at
\* most 6 rules; an update leaves every rule at its position, a rule being
\* identified by its position, and changes the field or the direction of
\* one rule only.
C25_Step ==
    /\ \A i, j \in 1 .. Len(sortRules') :
            (i # j) => sortRules'[i].field # sortRules'[j].field
    /\ Len(sortRules') <= 6
    /\ (Len(sortRules') = Len(sortRules) /\ sortRules' # sortRules) =>
            \E i \in 1 .. Len(sortRules) :
                /\ C25_Changed(sortRules, sortRules') = {i}
                /\ \/ sortRules'[i].field = sortRules[i].field
                   \/ sortRules'[i].direction = sortRules[i].direction

C26_Foreign(rows, p) ==
    \E i \in 1 .. Len(rows) : Len(rows[i].id) = 2 /\ rows[i].id[1] # p

C26_Step ==
    (create.pc # "creating" /\ create'.pc = "creating")
        => ~C26_Foreign(tracks, Val(selectedPlaylist).id)

C26_WritesSelectedPlaylist == [][C26_Step]_vars

\* C27: once the session is logged out (no tokenSet, no stored record), the
\* only step that stores a token record is a code exchange that succeeds,
\* whatever call of the logged-out client is still in progress
C27_Step ==
    (IsAbsent(tokenSet) /\ IsAbsent(localStorage) /\ ~IsAbsent(localStorage'))
        => (ev'.op = "exchange" /\ ev'.ok)

C27_LogoutIsFinal == [][C27_Step]_vars

\* C28: a call that has received no 429 has sent at most 2 resource
\* requests and at most 3 token requests; a call never sends more resource
\* requests than 1 + the 429s it has received + 1 if its first response was
\* a 401, and a call that returns a response has sent exactly that many
C28_RateLimited(q) == Len(SelectSeq(q.resp, LAMBDA s : s = 429))

C28_Sent(q) ==
    1 + C28_RateLimited(q)
      + (IF Len(q.resp) > 0 /\ q.resp[1] = 401 THEN 1 ELSE 0)

C28_Ends(r) == Active(req[r]) /\ req'[r].pc \in {"done", "failed"}

C28_Step ==
    \A r \in Req :
        LET q == req'[r]
        IN  /\ q.sent <= C28_Sent(q)
            /\ C28_RateLimited(q) = 0 => q.sent <= 2 /\ q.refreshes <= 3
            /\ (C28_Ends(r) /\ q.pc = "done") => q.sent = C28_Sent(q)

C29_FailsPartWay ==
    fetch.pc = "waiting" /\ fetch.answered > 0 /\ fetch'.pc = "failed"

C29_Step ==
    /\ (fetch.pc = "waiting" /\ fetch'.pc # "done")
          => UNCHANGED << playlists, tracks, sortedTracks >>
    /\ C29_FailsPartWay
          => /\ ~IsAbsent(banner') /\ Val(banner').type = "error"
             /\ IF fetch.kind = "playlists" THEN ~isLoadingPlaylists'
                ELSE ~isLoadingTracks'

C29_FailedFetchPublishesNothing == [][C29_Step]_vars

\* a fetch of tracks has failed after a page whose rows it had collected
C29_Witness ==
    /\ fetch.pc = "failed"
    /\ fetch.kind = "tracks"
    /\ fetch.answered > 1
    /\ Len(fetch.collected) > 0
    /\ tracks # fetch.collected
    /\ ~isLoadingTracks
    /\ ~IsAbsent(banner) /\ Val(banner).type = "error"

====
